---- MODULE Spec2Model ----
(***************************************************************************)
(* One rendering pass of dashboard/dashboard.py: load_data reads and       *)
(* enriches cleaned-day.csv and cleaned-hour.csv, the sidebar collects a   *)
(* date range, season labels and weather labels, the two tables are        *)
(* filtered by a boolean mask, and the metrics and group-mean charts are   *)
(* computed from the filtered tables.  st.stop() ends the pass.            *)
(*                                                                         *)
(* A CSV file is [readable, columns, rows]; a row is a record of column    *)
(* values.  A date string "2011-mm-dd" is the tuple <<2011, mm, dd>>; a    *)
(* parsed date (Timestamp / datetime.date) is the number of days since     *)
(* 2011-01-01.  A DataFrame is [columns, rows]: its column names and the   *)
(* sequence of its row records, each carrying its pandas index label in    *)
(* the field "index".  A Series is [index, values].                        *)
(***************************************************************************)
EXTENDS Integers, Sequences, FiniteSets, TLC

VARIABLES
    pc,               \* position of the script in the current pass
    src_day,          \* contents of cleaned-day.csv
    src_hour,         \* contents of cleaned-hour.csv
    day_df,           \* loaded daily table, or None
    hour_df,          \* loaded hourly table, or None
    selected_dates,   \* tuple returned by st.date_input
    possible_seasons, \* season options offered by the sidebar
    selected_seasons, \* labels returned by the season multiselect
    selected_weather, \* labels returned by the weather multiselect
    filtered_day,     \* filtered daily table
    filtered_hour,    \* filtered hourly table
    metrics,          \* total_reg, avg_reg, total_cas, avg_cas
    monthly,          \* filtered_day.groupby('month')['cnt'].mean()
    hourly,           \* filtered_hour.groupby('hr')['cnt'].mean()
    shown             \* messages given to st.error / st.warning, in order

vars == <<pc, src_day, src_hour, day_df, hour_df, selected_dates,
          possible_seasons, selected_seasons, selected_weather,
          filtered_day, filtered_hour, metrics, monthly, hourly, shown>>

\* Python's None, comparable with every DataFrame, Series and dict.
None == [none |-> TRUE]
NaN == "NaN"

\* ------------------------------------------------------------------------
\* Bounds of the model
\* ------------------------------------------------------------------------
\* Number of data rows of cleaned-day.csv and of cleaned-hour.csv.
MaxDayRows == 2
MaxHourRows == 1
\* Number of data rows of a file whose header lacks a column.
MaxHeaderRows == 1
\* A multiselect returns its full default or at most this many labels.
MaxPicked == 1

\* ------------------------------------------------------------------------
\* Static tables
\* ------------------------------------------------------------------------
month_map ==
    <<"January", "February", "March", "April", "May", "June", "July",
      "August", "September", "October", "November", "December">>

weather_map ==
    <<"Clear/Partly Cloudy", "Mist/Cloudy", "Light Rain/Snow/Thunderstorm",
      "Heavy Rain/Snow/Fog">>

season_order == <<"Spring", "Summer", "Fall", "Winter">>

\* The dict literal of load_data: 1 Spring, 2 Summer, 3 Fall, 4 Winter.
season_code_map == <<"Spring", "Summer", "Fall", "Winter">>

Range(s) == {s[i] : i \in DOMAIN s}

\* Series.map(dict): the label of a code in the dict, NaN for any other code.
MapCode(code, dict) == IF code \in DOMAIN dict THEN dict[code] ELSE NaN

\* The columns Series.map produces; only their cells can be NaN.
LabelColumns == {"weather", "season", "month"}

\* pd.isna on the cell of column c in row r.
IsNaN(r, c) == c \in LabelColumns /\ r[c] = NaN

\* ------------------------------------------------------------------------
\* Calendar (year 2011, not a leap year)
\* ------------------------------------------------------------------------
DaysInMonth == <<31, 28, 31, 30, 31, 30, 31, 31, 30, 31, 30, 31>>

RECURSIVE DaysBefore(_)
DaysBefore(m) == IF m = 1 THEN 0 ELSE DaysBefore(m - 1) + DaysInMonth[m - 1]

\* Whether pd.to_datetime accepts the date string.
Parseable(s) ==
    /\ s[2] \in 1..12
    /\ s[3] \in 1..DaysInMonth[s[2]]

\* pd.to_datetime on a parseable date string: days since 2011-01-01.
ToDatetime(s) == DaysBefore(s[2]) + s[3] - 1

\* DatetimeIndex.month of a parsed date.
MonthOf(d) ==
    CHOOSE m \in 1..12 : DaysBefore(m) <= d /\ d < DaysBefore(m) + DaysInMonth[m]

\* ------------------------------------------------------------------------
\* Input universe: the rows a CSV file may hold
\* ------------------------------------------------------------------------
\* The dates of the rows, and a date string pd.to_datetime rejects.
DateStrings == {<<2011, 1, 1>>, <<2011, 3, 1>>}
BadDateString == <<2011, 2, 30>>
\* Season codes of the daily rows: Spring and Winter.
SeasonCodes == {1, 4}
\* Weather codes of the daily rows: one of weather_map and one outside it.
WeatherCodes == {1, 5}

DayColumns ==
    {"dteday", "season", "weathersit", "mnth", "temp", "casual", "registered", "cnt"}
HourColumns == DayColumns \cup {"hr"}

\* Columns load_data reads by name.
LoaderColumns == {"dteday", "weathersit", "season", "mnth"}

\* A row of cleaned-day.csv; mnth is the month of the date string.
DayRow(ds, s, w) ==
    [dteday |-> ds, season |-> s, weathersit |-> w, mnth |-> ds[2],
     temp |-> 34, casual |-> 10, registered |-> 50, cnt |-> 60]

\* A row of cleaned-hour.csv.
HourRow(ds, s, w, h, c, r, t) ==
    [dteday |-> ds, season |-> s, weathersit |-> w, mnth |-> ds[2],
     temp |-> 20, casual |-> c, registered |-> r, cnt |-> t, hr |-> h]

\* The rows cleaned-day.csv may hold.
DayRows ==
    {DayRow(ds, s, w) : ds \in DateStrings, s \in SeasonCodes, w \in WeatherCodes}
    \cup {DayRow(BadDateString, 1, 1)}

\* The rows cleaned-hour.csv may hold: a winter hour, a spring hour whose
\* cnt is not casual + registered, and one with the rejected date.
HourRows ==
    {HourRow(<<2011, 1, 1>>, 4, 1, 5, 10, 50, 60),
     HourRow(<<2011, 3, 1>>, 1, 2, 6, 2, 3, 6),
     HourRow(BadDateString, 1, 1, 5, 10, 50, 60)}

SeqsUpTo(S, n) == UNION {[1..k -> S] : k \in 0..n}

\* A file that cannot be read, lacks one loader column, or is complete.
CsvFiles(Rows, Columns, n) ==
    {[readable |-> FALSE, columns |-> {}, rows |-> <<>>]}
    \cup {[readable |-> TRUE, columns |-> Columns \ {c}, rows |-> r] :
              c \in LoaderColumns, r \in SeqsUpTo(Rows, MaxHeaderRows)}
    \cup {[readable |-> TRUE, columns |-> Columns, rows |-> r] :
              r \in SeqsUpTo(Rows, n)}

\* ------------------------------------------------------------------------
\* load_data
\* ------------------------------------------------------------------------
DataFrame(columns, rows) == [columns |-> columns, rows |-> rows]

\* pd.read_csv: the rows restricted to the file's columns, with a RangeIndex.
ReadCsv(file) ==
    DataFrame(file.columns,
        [i \in DOMAIN file.rows |->
            [c \in file.columns \cup {"index"} |->
                IF c = "index" THEN i - 1 ELSE file.rows[i][c]]])

\* The first exception the loop body raises on one table, or None.
NoError == "no error"

EnrichError(df) ==
    IF "dteday" \notin df.columns THEN "KeyError: 'dteday'"
    ELSE IF \E i \in DOMAIN df.rows : ~Parseable(df.rows[i].dteday)
        THEN "ParserError: dteday"
    ELSE IF "weathersit" \notin df.columns THEN "KeyError: 'weathersit'"
    ELSE IF "season" \notin df.columns THEN "KeyError: 'season'"
    ELSE IF "mnth" \notin df.columns THEN "KeyError: 'mnth'"
    ELSE NoError

\* The loop body with cnt recomputed from casual and registered.
EnrichRowRecount(r) ==
    [c \in DOMAIN r \cup {"weather", "month"} |->
        CASE c = "dteday" -> ToDatetime(r.dteday)
          [] c = "weather" -> MapCode(r.weathersit, weather_map)
          [] c = "season" -> MapCode(r.season, season_code_map)
          [] c = "month" -> MapCode(r.mnth, month_map)
          [] c = "cnt" -> r.casual + r.registered
          [] OTHER -> r[c]]

\* The four assignments of the loop body on one row.
EnrichRow(r) ==
    [c \in DOMAIN r \cup {"weather", "month"} |->
        CASE c = "dteday" -> ToDatetime(r.dteday)
          [] c = "weather" -> MapCode(r.weathersit, weather_map)
          [] c = "season" -> MapCode(r.season, season_code_map)
          [] c = "month" -> MapCode(r.mnth, month_map)
          [] OTHER -> r[c]]

\* The loop body on one table.
Enrich(df) ==
    DataFrame(df.columns \cup {"weather", "month"},
              [i \in DOMAIN df.rows |-> EnrichRow(df.rows[i])])

\* The exception load_data catches, or NoError when it returns the tables.
LoadError(day, hour) ==
    IF ~day.readable THEN "FileNotFoundError: cleaned-day.csv"
    ELSE IF ~hour.readable THEN "FileNotFoundError: cleaned-hour.csv"
    ELSE IF EnrichError(ReadCsv(day)) # NoError THEN EnrichError(ReadCsv(day))
    ELSE EnrichError(ReadCsv(hour))

\* load_data returning whatever it managed to enrich.
LoadResultPartial(day, hour) ==
    <<IF day.readable /\ EnrichError(ReadCsv(day)) = NoError
          THEN Enrich(ReadCsv(day)) ELSE None,
      IF day.readable /\ hour.readable /\ EnrichError(ReadCsv(hour)) = NoError
          THEN Enrich(ReadCsv(hour)) ELSE None>>

\* The pair load_data returns.
LoadResult(day, hour) ==
    IF LoadError(day, hour) # NoError THEN <<None, None>>
    ELSE <<Enrich(ReadCsv(day)), Enrich(ReadCsv(hour))>>

Init ==
    /\ pc = "load"
    /\ src_day \in CsvFiles(DayRows, DayColumns, MaxDayRows)
    /\ src_hour \in CsvFiles(HourRows, HourColumns, MaxHourRows)
    /\ day_df = None
    /\ hour_df = None
    /\ selected_dates = <<>>
    /\ possible_seasons = <<>>
    /\ selected_seasons = {}
    /\ selected_weather = {}
    /\ filtered_day = None
    /\ filtered_hour = None
    /\ metrics = None
    /\ monthly = None
    /\ hourly = None
    /\ shown = <<>>

\* day_df, hour_df = load_data(); st.stop() when either is None.
Load ==
    /\ pc = "load"
    /\ day_df' = LoadResult(src_day, src_hour)[1]
    /\ hour_df' = LoadResult(src_day, src_hour)[2]
    /\ IF LoadError(src_day, src_hour) # NoError
       THEN /\ shown' = Append(shown, "Error loading data: " \o LoadError(src_day, src_hour))
            /\ pc' = "stopped_load"
       ELSE /\ shown' = shown
            /\ pc' = "date_input"
    /\ UNCHANGED <<src_day, src_hour, selected_dates, possible_seasons,
                   selected_seasons, selected_weather, filtered_day,
                   filtered_hour, metrics, monthly, hourly>>

\* ------------------------------------------------------------------------
\* Sidebar
\* ------------------------------------------------------------------------
RECURSIVE SeqMin(_)
SeqMin(s) ==
    IF Len(s) = 1 THEN s[1]
    ELSE IF s[1] <= SeqMin(Tail(s)) THEN s[1] ELSE SeqMin(Tail(s))

RECURSIVE SeqMax(_)
SeqMax(s) ==
    IF Len(s) = 1 THEN s[1]
    ELSE IF s[1] >= SeqMax(Tail(s)) THEN s[1] ELSE SeqMax(Tail(s))

\* df[c] as the sequence of its values.
Column(df, c) == [i \in DOMAIN df.rows |-> df.rows[i][c]]

min_date == SeqMin(Column(day_df, "dteday"))
max_date == SeqMax(Column(day_df, "dteday"))

\* The days the user picks from in this model: the dates of the input
\* universe that lie within [min_value, max_value].
PickDates ==
    {d \in {ToDatetime(s) : s \in DateStrings} : min_date <= d /\ d <= max_date}

\* st.date_input: a tuple of zero, one or two days.  With an empty daily
\* table min() is NaT and the widget call raises; nothing catches it.
DateInput ==
    /\ pc = "date_input"
    /\ IF day_df.rows = <<>>
       THEN /\ pc' = "crashed"
            /\ selected_dates' = selected_dates
       ELSE /\ pc' = "validate"
            /\ selected_dates' \in SeqsUpTo(PickDates, 2)
    /\ UNCHANGED <<src_day, src_hour, day_df, hour_df, possible_seasons,
                   selected_seasons, selected_weather, filtered_day,
                   filtered_hour, metrics, monthly, hourly, shown>>

\* The dict season_mapping: calendar month to season label.
season_mapping(m) ==
    CASE m \in {12, 1, 2} -> "Winter"
      [] m \in {3, 4, 5} -> "Spring"
      [] m \in {6, 7, 8} -> "Summer"
      [] m \in {9, 10, 11} -> "Fall"

\* pd.date_range(start, end, freq='D').month.unique(): empty when start > end.
UniqueMonths(start_date, end_date) == {MonthOf(d) : d \in start_date..end_date}

\* The two assignments to possible_seasons.
PossibleSeasons(start_date, end_date) ==
    LET offered == {season_mapping(m) : m \in UniqueMonths(start_date, end_date)}
    IN  SelectSeq(season_order, LAMBDA s : s \in offered)

\* "Validasi tanggal", then the season options of the selected range.
ValidateDates ==
    /\ pc = "validate"
    /\ IF Len(selected_dates) # 2
       THEN /\ shown' = Append(shown,
                   "Harap pilih rentang tanggal yang valid (start dan end date)")
            /\ pc' = "stopped_range"
            /\ possible_seasons' = possible_seasons
       ELSE /\ shown' = shown
            /\ pc' = "season_select"
            /\ possible_seasons' = PossibleSeasons(selected_dates[1], selected_dates[2])
    /\ UNCHANGED <<src_day, src_hour, day_df, hour_df, selected_dates,
                   selected_seasons, selected_weather, filtered_day,
                   filtered_hour, metrics, monthly, hourly>>

\* st.multiselect(options, default=options): any subset of the options; the
\* model offers the untouched default and the selections of up to MaxPicked.
Multiselect(options) ==
    {Range(options)} \cup {S \in SUBSET Range(options) : Cardinality(S) <= MaxPicked}

SeasonSelect ==
    /\ pc = "season_select"
    /\ selected_seasons' \in Multiselect(possible_seasons)
    /\ pc' = "weather_select"
    /\ UNCHANGED <<src_day, src_hour, day_df, hour_df, selected_dates,
                   possible_seasons, selected_weather, filtered_day,
                   filtered_hour, metrics, monthly, hourly, shown>>

WeatherSelect ==
    /\ pc = "weather_select"
    /\ selected_weather' \in Multiselect(weather_map)
    /\ pc' = "filter"
    /\ UNCHANGED <<src_day, src_hour, day_df, hour_df, selected_dates,
                   possible_seasons, selected_seasons, filtered_day,
                   filtered_hour, metrics, monthly, hourly, shown>>

\* ------------------------------------------------------------------------
\* Filter
\* ------------------------------------------------------------------------
\* isin with an empty selection read as "no restriction".
IsInOrUnrestricted(x, values) == values = {} \/ x \in values

\* Series.isin(values).
IsIn(x, values) == x \in values

\* Mask with the end date excluded (< for <=).
MaskExclusiveEnd(r, dates, seasons, weather) ==
    /\ r.dteday >= dates[1]
    /\ r.dteday < dates[2]
    /\ r.season \in seasons
    /\ r.weather \in weather

\* The row mask of filtered_day / filtered_hour.
Mask(r, dates, seasons, weather) ==
    /\ r.dteday >= dates[1]
    /\ r.dteday <= dates[2]
    /\ IsIn(r.season, seasons)
    /\ IsIn(r.weather, weather)

\* The matching rows without the first of them (a slice off by one).
FilterDropsFirst(df, dates, seasons, weather) ==
    LET kept == SelectSeq(df.rows, LAMBDA r : Mask(r, dates, seasons, weather))
    IN  DataFrame(df.columns, IF kept = <<>> THEN kept ELSE Tail(kept))

\* The matching rows in descending row order.
FilterReversed(df, dates, seasons, weather) ==
    LET kept == SelectSeq(df.rows, LAMBDA r : Mask(r, dates, seasons, weather))
    IN  DataFrame(df.columns, [i \in DOMAIN kept |-> kept[Len(kept) + 1 - i]])

\* df[mask]: the rows whose mask is True, in the order of df.
Filter(df, dates, seasons, weather) ==
    DataFrame(df.columns,
              SelectSeq(df.rows, LAMBDA r : Mask(r, dates, seasons, weather)))

\* The comparisons and isin of the try block raise nothing on the loaded
\* tables, so its except branch is never taken.
FilterData ==
    /\ pc = "filter"
    /\ filtered_day' = Filter(day_df, selected_dates, selected_seasons, selected_weather)
    /\ filtered_hour' = Filter(hour_df, selected_dates, selected_seasons, selected_weather)
    /\ pc' = "empty_check"
    /\ UNCHANGED <<src_day, src_hour, day_df, hour_df, selected_dates,
                   possible_seasons, selected_seasons, selected_weather,
                   metrics, monthly, hourly, shown>>

\* The guard with the hourly table forgotten.
NoMatchingDataDayOnly(fday, fhour) == fday.rows = <<>>

\* if filtered_day.empty or filtered_hour.empty
NoMatchingData(fday, fhour) == fday.rows = <<>> \/ fhour.rows = <<>>

EmptyCheck ==
    /\ pc = "empty_check"
    /\ IF NoMatchingData(filtered_day, filtered_hour)
       THEN /\ shown' = Append(shown, "Tidak ada data yang sesuai dengan filter")
            /\ pc' = "stopped_empty"
       ELSE /\ shown' = shown
            /\ pc' = "metrics"
    /\ UNCHANGED <<src_day, src_hour, day_df, hour_df, selected_dates,
                   possible_seasons, selected_seasons, selected_weather,
                   filtered_day, filtered_hour, metrics, monthly, hourly>>

\* ------------------------------------------------------------------------
\* Metrics and group-mean charts
\* ------------------------------------------------------------------------
RECURSIVE SeqSum(_)
SeqSum(s) == IF s = <<>> THEN 0 ELSE s[1] + SeqSum(Tail(s))

\* Series.mean() as the exact fraction <<sum, count>>.
Mean(s) == <<SeqSum(s), Len(s)>>

Metrics ==
    /\ pc = "metrics"
    /\ metrics' = [total_reg |-> SeqSum(Column(filtered_day, "registered")),
                   avg_reg |-> Mean(Column(filtered_day, "registered")),
                   total_cas |-> SeqSum(Column(filtered_day, "casual")),
                   avg_cas |-> Mean(Column(filtered_day, "casual"))]
    /\ pc' = "charts"
    /\ UNCHANGED <<src_day, src_hour, day_df, hour_df, selected_dates,
                   possible_seasons, selected_seasons, selected_weather,
                   filtered_day, filtered_hour, monthly, hourly, shown>>

\* The order groupby sorts the keys in: labels alphabetically, hours
\* numerically.
SortedKeys ==
    [month |-> <<"April", "August", "December", "February", "January", "July",
                 "June", "March", "May", "November", "October", "September">>,
     hr |-> [i \in 1..24 |-> i - 1]]

\* The group mean reindexed over every key of the display order.
GroupByMeanAllKeys(df, key, col) ==
    [index |-> SortedKeys[key],
     values |-> [i \in DOMAIN SortedKeys[key] |->
         Mean(Column(DataFrame(df.columns,
             SelectSeq(df.rows, LAMBDA r : r[key] = SortedKeys[key][i])), col))]]

\* df.groupby(key)[col].mean(): a Series with one entry per key value of
\* df, in sorted order; rows whose key is NaN belong to no group.
GroupByMean(df, key, col) ==
    LET present == Range(Column(DataFrame(df.columns,
                       SelectSeq(df.rows, LAMBDA r : ~IsNaN(r, key))), key))
        index == SelectSeq(SortedKeys[key], LAMBDA k : k \in present)
    IN  [index |-> index,
         values |-> [i \in DOMAIN index |->
             Mean(Column(DataFrame(df.columns,
                 SelectSeq(df.rows, LAMBDA r : r[key] = index[i])), col))]]

\* Series.reset_index(): a DataFrame of the key and the value, re-indexed.
ResetIndex(series, key, col) ==
    DataFrame({key, col},
        [i \in DOMAIN series.index |->
            [c \in {"index", key, col} |->
                CASE c = "index" -> i - 1
                  [] c = key -> series.index[i]
                  [] OTHER -> series.values[i]]])

\* The "Bulanan" and "Per Jam" tabs.
Charts ==
    /\ pc = "charts"
    /\ monthly' = ResetIndex(GroupByMean(filtered_day, "month", "cnt"), "month", "cnt")
    /\ hourly' = GroupByMean(filtered_hour, "hr", "cnt")
    /\ pc' = "done"
    /\ UNCHANGED <<src_day, src_hour, day_df, hour_df, selected_dates,
                   possible_seasons, selected_seasons, selected_weather,
                   filtered_day, filtered_hour, metrics, shown>>

\* A widget interaction reruns the script from the top; the source files
\* are the same and every script variable starts afresh.
Rerun ==
    /\ pc \in {"stopped_load", "stopped_range", "stopped_empty", "crashed", "done"}
    /\ pc' = "load"
    /\ day_df' = None
    /\ hour_df' = None
    /\ selected_dates' = <<>>
    /\ possible_seasons' = <<>>
    /\ selected_seasons' = {}
    /\ selected_weather' = {}
    /\ filtered_day' = None
    /\ filtered_hour' = None
    /\ metrics' = None
    /\ monthly' = None
    /\ hourly' = None
    /\ shown' = <<>>
    /\ UNCHANGED <<src_day, src_hour>>

Next ==
    \/ Load
    \/ DateInput
    \/ ValidateDates
    \/ SeasonSelect
    \/ WeatherSelect
    \/ FilterData
    \/ EmptyCheck
    \/ Metrics
    \/ Charts
    \/ Rerun

Spec == Init /\ [][Next]_vars

\* ------------------------------------------------------------------------
\* Properties
\* ------------------------------------------------------------------------
\* The script has returned from load_data with two tables.
Loaded == pc \notin {"load", "stopped_load"}

\* The filter step of the pass has run.
Filtered == pc \in {"empty_check", "stopped_empty", "metrics", "charts", "done"}

\* The row-by-row reference predicate of the filter.
Matches(r) ==
    /\ selected_dates[1] <= r.dteday
    /\ r.dteday <= selected_dates[2]
    /\ r.season \in selected_seasons
    /\ r.weather \in selected_weather

\* F holds exactly the rows of T that match, each once.
ExactlyMatching(T, F) ==
    /\ Range(F.rows) \subseteq Range(T.rows)
    /\ Cardinality(Range(F.rows)) = Len(F.rows)
    /\ \A i \in DOMAIN T.rows : (T.rows[i] \in Range(F.rows)) <=> Matches(T.rows[i])

\* C1: once the filter has run, the filtered daily (hourly) table holds a row
\* of the loaded daily (hourly) table if and only if its date lies in
\* [start, end], both inclusive, its season label is selected and its weather
\* label is selected.
C1_FilterExact ==
    Filtered =>
        /\ ExactlyMatching(day_df, filtered_day)
        /\ ExactlyMatching(hour_df, filtered_hour)

\* Of two daily rows the filter kept the one dated on the end of a range of
\* more than one day, and dropped the other.
C1_Witness ==
    /\ Filtered
    /\ Len(day_df.rows) = 2
    /\ Len(filtered_day.rows) = 1
    /\ filtered_day.rows[1].dteday = selected_dates[2]
    /\ selected_dates[1] < selected_dates[2]

\* C2: whenever the filtered daily or hourly table is empty, the pass is at
\* the empty-result guard or has stopped there with the warning as its only
\* message; no metric, aggregate or chart has been computed.
C2_EmptyStops ==
    (Filtered /\ (filtered_day.rows = <<>> \/ filtered_hour.rows = <<>>)) =>
        /\ pc \in {"empty_check", "stopped_empty"}
        /\ metrics = None
        /\ monthly = None
        /\ hourly = None
        /\ pc = "stopped_empty" =>
               shown = <<"Tidak ada data yang sesuai dengan filter">>

\* A pass stopped by the guard although the daily table kept a row.
C2_Witness ==
    /\ pc = "stopped_empty"
    /\ filtered_day.rows # <<>>
    /\ filtered_hour.rows = <<>>

\* A source load_data cannot read or enrich.
Malformed(file) ==
    \/ ~file.readable
    \/ ~(LoaderColumns \subseteq file.columns)
    \/ \E i \in DOMAIN file.rows : ~Parseable(file.rows[i].dteday)

\* C3: if either source is unreadable, lacks a loader column or holds an
\* unparseable date, load_data shows one load error with the exception's
\* text and returns (None, None), and the pass stops at the load guard: no
\* filter control, filter or rendering step runs.  The result is never one
\* table and one sentinel.
C3_LoadFailure ==
    /\ (day_df = None) <=> (hour_df = None)
    /\ (Malformed(src_day) \/ Malformed(src_hour)) =>
        /\ pc \in {"load", "stopped_load"}
        /\ day_df = None
        /\ hour_df = None
        /\ pc = "stopped_load" =>
               /\ LoadError(src_day, src_hour) # NoError
               /\ shown = <<"Error loading data: " \o LoadError(src_day, src_hour)>>

\* A pass stopped at the load guard by the hourly source alone: the daily
\* source is complete and has rows, the hourly one is readable but malformed.
C3_Witness ==
    /\ pc = "stopped_load"
    /\ ~Malformed(src_day)
    /\ src_day.rows # <<>>
    /\ Malformed(src_hour)
    /\ src_hour.readable

\* The date selection is incomplete or inverted.
InvalidRange ==
    \/ Len(selected_dates) < 2
    \/ (Len(selected_dates) = 2 /\ selected_dates[1] > selected_dates[2])

\* C4: once an incomplete or inverted date selection has been made, the pass
\* is rejected as an invalid range: it is at the validation or has stopped
\* there, and never goes on to the season options or the filter.
C4_InvalidRangeRejected ==
    (pc \notin {"load", "stopped_load", "date_input", "crashed"} /\ InvalidRange) =>
        pc \in {"validate", "stopped_range"}

\* C5: with no season label or no weather label selected, both filtered
\* tables are empty.
C5_EmptySelection ==
    (Filtered /\ (selected_seasons = {} \/ selected_weather = {})) =>
        (filtered_day.rows = <<>> /\ filtered_hour.rows = <<>>)

\* The weather selection is empty while a daily row lies in the date range
\* with a selected season label.
C5_Witness ==
    /\ Filtered
    /\ selected_weather = {}
    /\ \E i \in DOMAIN day_df.rows :
         /\ selected_dates[1] <= day_df.rows[i].dteday
         /\ day_df.rows[i].dteday <= selected_dates[2]
         /\ day_df.rows[i].season \in selected_seasons

\* C6: for start <= end, filtering the filtered table again with the same
\* parameters returns the same table.
C6_Idempotent ==
    (Filtered /\ selected_dates[1] <= selected_dates[2]) =>
        /\ Filter(filtered_day, selected_dates, selected_seasons, selected_weather)
               = filtered_day
        /\ Filter(filtered_hour, selected_dates, selected_seasons, selected_weather)
               = filtered_hour

\* Both filtered tables are non-empty and the daily one dropped a row.
C6_Witness ==
    /\ Filtered
    /\ filtered_day.rows # <<>>
    /\ filtered_hour.rows # <<>>
    /\ Len(filtered_day.rows) < Len(day_df.rows)

\* The columns load_data assigns.
AssignedColumns == {"dteday", "season", "weather", "month"}

\* The table has the file's columns plus weather and month, and every column
\* load_data does not assign has, in every row, the value read from the file.
FramePreserved(file, df) ==
    /\ df.columns = file.columns \cup {"weather", "month"}
    /\ Len(df.rows) = Len(file.rows)
    /\ \A i \in DOMAIN df.rows :
         /\ DOMAIN df.rows[i] = df.columns \cup {"index"}
         /\ df.rows[i].index = i - 1
         /\ \A c \in file.columns \ AssignedColumns : df.rows[i][c] = file.rows[i][c]
         /\ (file.rows[i].casual + file.rows[i].registered = file.rows[i].cnt)
                => (df.rows[i].casual + df.rows[i].registered = df.rows[i].cnt)

\* C7: load_data changes only dteday, season, weather and month; every other
\* column of every row of both tables keeps the value of the source, so
\* casual + registered = cnt is preserved wherever the source has it.
C7_LoadFrame ==
    Loaded => (FramePreserved(src_day, day_df) /\ FramePreserved(src_hour, hour_df))

\* Both tables were loaded with rows, an hourly row with casual + registered
\* = cnt among them.
C7_Witness ==
    /\ Loaded
    /\ day_df.rows # <<>>
    /\ \E i \in DOMAIN hour_df.rows :
         hour_df.rows[i].casual + hour_df.rows[i].registered = hour_df.rows[i].cnt

\* C8: the keys of the monthly (hourly) group mean are exactly the month
\* labels (hours) of the rows of the filtered daily (hourly) table, one entry
\* per key.
C8_GroupKeys ==
    pc = "done" =>
        /\ Range(Column(monthly, "month")) = Range(Column(filtered_day, "month"))
        /\ Len(monthly.rows) = Cardinality(Range(Column(filtered_day, "month")))
        /\ Range(hourly.index) = Range(Column(filtered_hour, "hr"))
        /\ Len(hourly.index) = Cardinality(Range(Column(filtered_hour, "hr")))

\* The charts were computed and a month of the loaded daily table has no
\* filtered row, so no entry.
C8_Witness ==
    /\ pc = "done"
    /\ \E i \in DOMAIN day_df.rows :
         day_df.rows[i].month \notin Range(Column(monthly, "month"))

\* F is a subsequence of T: every row of F is the row of T at its index
\* label, and the index labels of F increase.
IsSubsequence(F, T) ==
    /\ \A i \in DOMAIN F.rows :
         /\ F.rows[i].index + 1 \in DOMAIN T.rows
         /\ T.rows[F.rows[i].index + 1] = F.rows[i]
    /\ \A i, j \in DOMAIN F.rows : i < j => F.rows[i].index < F.rows[j].index

\* C9: the filtered tables are subsequences of the loaded tables, and the
\* loaded tables are still what load_data returned.
C9_OrderAndFrame ==
    Filtered =>
        /\ IsSubsequence(filtered_day, day_df)
        /\ IsSubsequence(filtered_hour, hour_df)
        /\ day_df = LoadResult(src_day, src_hour)[1]
        /\ hour_df = LoadResult(src_day, src_hour)[2]

\* The filter kept two daily rows that are not in date order.
C9_Witness ==
    /\ Filtered
    /\ Len(filtered_day.rows) = 2
    /\ filtered_day.rows[1].dteday > filtered_day.rows[2].dteday

\* C10: with both multiselects left at their defaults, every loaded daily
\* row dated within the selected range whose weather code and season code
\* are in 1..4 is retained.
C10_DefaultsRetain ==
    (Filtered /\ selected_seasons = Range(possible_seasons)
              /\ selected_weather = Range(weather_map)) =>
        \A i \in DOMAIN day_df.rows :
            (/\ selected_dates[1] <= day_df.rows[i].dteday
             /\ day_df.rows[i].dteday <= selected_dates[2]
             /\ src_day.rows[i].weathersit \in 1..4
             /\ src_day.rows[i].season \in 1..4)
            => day_df.rows[i] \in Range(filtered_day.rows)
====
